---------------------------- MODULE Spec2Model ----------------------------
(***************************************************************************)
(* Model of frontend/ai_pay/page.tsx: the chat-driven payment session of   *)
(* Mojo X402 (request payment options, select network, select amount, SPL  *)
(* token transfer, gateway confirmation).                                  *)
(*                                                                         *)
(* React state is modelled by one variable per useState cell; a set-state  *)
(* call is an assignment to that variable.  An event handler is a closure  *)
(* of the render in which it was created: the state it READS after an      *)
(* await is the state of that render, not the current one.  The snapshot   *)
(* taken when a handler is invoked is kept in `cl`, together with the      *)
(* handler's local variables; `pc` is the await at which the in-flight     *)
(* handler is suspended.  Clicks are discrete events: React re-renders     *)
(* before the next click is dispatched, so a button's guard is evaluated   *)
(* on the current state.                                                   *)
(*                                                                         *)
(* JavaScript strings whose content matters (amounts, network names,       *)
(* gateway messages, button values) are sequences of one-character         *)
(* strings, so that split/replace/slice/includes/toLowerCase are computed. *)
(***************************************************************************)
EXTENDS Integers, Sequences, FiniteSets, TLC

(***************************************************************************)
(* Bounds of the model.                                                    *)
(***************************************************************************)
\* longest `accepts` list the gateway returns
MaxAccepts == 2
\* longest amount string, and largest decimals, amountToSmallestUnit is
\* called with
MaxAmountLen == 3
MaxDecimals == 2
\* most fetchWalletInfo calls in flight at a time
MaxRefreshes == 1

(***************************************************************************)
(* Program constants.                                                      *)
(***************************************************************************)
SOLANA_DECIMALS == 6
LAMPORTS_PER_SOL == 1000000000
\* BigInt(10_000_000) lamports = 0.01 SOL
minLamports == 10000000

(***************************************************************************)
(* String helpers (JavaScript semantics on sequences of characters).       *)
(***************************************************************************)
Digits == <<"0", "1", "2", "3", "4", "5", "6", "7", "8", "9">>

IsDigit(c) == \E i \in 1..10 : Digits[i] = c

DigitValue(c) == (CHOOSE i \in 1..10 : Digits[i] = c) - 1

\* s.replace(/\D/g, '')
RECURSIVE StripNonDigits(_)
StripNonDigits(s) ==
    IF s = <<>> THEN <<>>
    ELSE IF IsDigit(Head(s)) THEN <<Head(s)>> \o StripNonDigits(Tail(s))
    ELSE StripNonDigits(Tail(s))

\* the text of s before its first '.', i.e. s.split('.')[0]
RECURSIVE BeforeDot(_)
BeforeDot(s) ==
    IF s = <<>> \/ Head(s) = "." THEN <<>>
    ELSE <<Head(s)>> \o BeforeDot(Tail(s))

\* the text of s after its first '.', or <<>> when s has no '.'
RECURSIVE AfterDot(_)
AfterDot(s) ==
    IF s = <<>> THEN <<>>
    ELSE IF Head(s) = "." THEN Tail(s)
    ELSE AfterDot(Tail(s))

\* '0'.repeat(n)
RECURSIVE Zeros(_)
Zeros(n) == IF n <= 0 THEN <<>> ELSE <<"0">> \o Zeros(n - 1)

\* s.slice(0, n) for n >= 0
SliceTo(s, n) == SubSeq(s, 1, IF n < Len(s) THEN n ELSE Len(s))

\* BigInt(s) for a string of decimal digits (leading zeros allowed)
RECURSIVE DigitsToNat(_)
DigitsToNat(s) ==
    IF s = <<>> THEN 0
    ELSE DigitsToNat(SubSeq(s, 1, Len(s) - 1)) * 10 + DigitValue(s[Len(s)])

\* n.toString() for a non-negative integer
RECURSIVE NatToString(_)
NatToString(n) ==
    IF n < 10 THEN <<Digits[n + 1]>>
    ELSE NatToString(n \div 10) \o <<Digits[(n % 10) + 1]>>

UpperCase == <<"A", "B", "D", "L", "O", "S", "W">>
LowerCase == <<"a", "b", "d", "l", "o", "s", "w">>

\* c.toLowerCase() on the alphabet the model's strings use
LowerChar(c) ==
    IF \E i \in DOMAIN UpperCase : UpperCase[i] = c
    THEN LowerCase[CHOOSE i \in DOMAIN UpperCase : UpperCase[i] = c]
    ELSE c

\* s.toLowerCase()
ToLowerCase(s) == [i \in DOMAIN s |-> LowerChar(s[i])]

\* s.includes(t)
Includes(s, t) ==
    \E i \in 0..(Len(s) - Len(t)) : SubSeq(s, i + 1, i + Len(t)) = t

(***************************************************************************)
(* amountToSmallestUnit and resolveDecimals.                               *)
(***************************************************************************)
\* mutant: the fraction is padded to `decimals` digits but not cut to them
amountToSmallestUnit_PadEnd(value, decimals) ==
    LET integerPart    == BeforeDot(value)
        fractionalPart == BeforeDot(AfterDot(value))
        cleanInteger   == IF StripNonDigits(integerPart) = <<>> THEN <<"0">>
                          ELSE StripNonDigits(integerPart)
        cleanFraction  == StripNonDigits(fractionalPart)
        paddedFraction == cleanFraction \o Zeros(decimals - Len(cleanFraction))
    IN  DigitsToNat(cleanInteger \o paddedFraction)

amountToSmallestUnit(value, decimals) ==
    LET integerPart    == BeforeDot(value)
        \* the second element of value.split('.'), '' when there is none
        fractionalPart == BeforeDot(AfterDot(value))
        cleanInteger   == IF StripNonDigits(integerPart) = <<>> THEN <<"0">>
                          ELSE StripNonDigits(integerPart)
        cleanFraction  == StripNonDigits(fractionalPart)
        paddedFraction == SliceTo(cleanFraction \o Zeros(decimals), decimals)
        combined       == cleanInteger \o paddedFraction
    IN  DigitsToNat(IF combined = <<>> THEN <<"0">> ELSE combined)

\* An optional number (undefined | null | number) is <<>> or <<n>>.
\* mutant: only a missing decimals falls back; zero is taken as given
resolveDecimals_ZeroAllowed(decimals, fallback) ==
    IF decimals = <<>> THEN fallback ELSE decimals[1]

resolveDecimals(decimals, fallback) ==
    IF decimals = <<>> THEN fallback
    ELSE IF decimals[1] <= 0 THEN fallback
    ELSE decimals[1]

(***************************************************************************)
(* Values of the environment (gateway and ledger answers).                 *)
(***************************************************************************)
Str_Solana       == <<"S", "o", "l", "a", "n", "a">>
Str_base         == <<"b", "a", "s", "e">>
Str_SolanaDevnet == <<"S", "o", "l", "a", "n", "a", " ", "D", "e", "v", "n", "e", "t">>
Str_sol          == <<"s", "o", "l">>
Str_Waiting      == <<"W", "a", "i", "t", "i", "n", "g">>
Str_WaitingForPayment ==
    Str_Waiting \o <<" ", "f", "o", "r", " ", "P", "a", "y", "m", "e", "n", "t">>
Str_rejected     == <<"r", "e", "j", "e", "c", "t", "e", "d">>

\* PaymentAccept, reduced to the fields the session logic reads
Networks      == {Str_Solana, Str_base, <<>>}
DecimalsField == {<<>>, <<0>>, <<2>>}
PaymentAccept ==
    [scheme : {"exact"}, network : Networks, decimals : DecimalsField, payTo : {"payTo"}]

RECURSIVE SeqsUpTo(_, _)
SeqsUpTo(S, n) ==
    IF n = 0 THEN {<<>>}
    ELSE SeqsUpTo(S, n - 1) \cup
         {Append(q, x) : q \in {r \in SeqsUpTo(S, n - 1) : Len(r) = n - 1}, x \in S}

AcceptsLists == SeqsUpTo(PaymentAccept, MaxAccepts)
\* data.orderId; "" stands for a missing or empty one
OrderIds     == {"", "order-1"}

\* the labels of the amount buttons, handleSelectNetwork
AmountValues == << <<"0", ".", "1">>, <<"0", ".", "2">>, <<"0", ".", "3">> >>

\* connection.getAccountInfo(): <<>> (null) or <<[owner, mint]>>; mint is the
\* parsed mint of getParsedAccountInfo(), "" when the data is not parsed
AccountInfos ==
    {<<>>} \cup {<<[owner |-> o, mint |-> m]>> : o \in {"token", "system"},
                                                  m \in {"USDC", "other", ""}}
\* getAccountInfo(fromTokenAccount): only its existence is read
SenderAccountInfos == {<<>>, <<[owner |-> "token", mint |-> "USDC"]>>}
\* payerUsdcBalance.value.amount and getBalance(), in minor units
TokenBalances  == {50000, 2000000}
NativeBalances == {9999999, 10000000}
\* the outcomes of connection.confirmTransaction()
ConfirmOutcomes == {"confirmed", "err", "expired"}

\* the responses of resourcePaymentConfirm: 0 and <<>> stand for an absent field
ConfirmResponses ==
    [code : {0, 200, 400}, status : {0, 200}, message : {<<>>, Str_WaitingForPayment, Str_rejected},
     dataCode : {0, 200}, dataMessage : {<<>>, Str_Waiting}]
\* the response of a call that rejected: no field is present
NoResponse ==
    [code |-> 0, status |-> 0, message |-> <<>>, dataCode |-> 0, dataMessage |-> <<>>]

(***************************************************************************)
(* State.                                                                  *)
(***************************************************************************)
VARIABLES
    step,                  \* useState<Step>
    chatList,              \* useState<ChatMessage[]>: [text, options]
    paymentOptions,        \* useState<PaymentAccept[]>
    selectedPaymentOption, \* useState<PaymentAccept | null>: <<>> or <<option>>
    orderId,               \* useState<string>
    selectedAmount,        \* useState<string>
    selectedToken,         \* useState<'USDC' | ''>
    selectedNetwork,       \* useState<string>
    actualTransferAmount,  \* useState<string>
    txHash,                \* useState<string>: <<>> or a signature
    resourceid,            \* useState<string>
    pc,                    \* the await at which the in-flight handler is suspended
    cl,                    \* that handler's closure (render snapshot) and locals
    successTimer,          \* the setTimeout of confirmPayment is pending
    paymentCalls,          \* resourcePayment requests issued
    confirmCalls,          \* resourcePaymentConfirm requests issued (decoded X-PAYMENT)
    ledgerTxs,             \* transactions accepted by connection.sendTransaction
    hist,                  \* history: what has happened in the session
    clickLog,              \* history: option-button clicks dispatched
    received,              \* history: what the last step received (a reply, an argument)
    solWalletAddress,      \* useState<string>
    solBalance,            \* useState<string>
    usdcBalance,           \* useState<string>
    isLoadingBalance,      \* useState<boolean>
    refreshes,             \* fetchWalletInfo calls in flight: how many are suspended at each await
    walletTimer,           \* the setTimeout of sendSolanaTransfer is pending
    gateway,               \* the gateway the page talks to: "any" or "single"
    unitCall               \* a call of amountToSmallestUnit: its arguments and result

reactState ==
    <<step, chatList, paymentOptions, selectedPaymentOption, orderId, selectedAmount,
      selectedToken, selectedNetwork, actualTransferAmount, txHash, resourceid>>

vars ==
    <<step, chatList, paymentOptions, selectedPaymentOption, orderId, selectedAmount,
      selectedToken, selectedNetwork, actualTransferAmount, txHash, resourceid,
      pc, cl, successTimer, paymentCalls, confirmCalls, ledgerTxs, hist, clickLog,
      received, solWalletAddress, solBalance, usdcBalance, isLoadingBalance,
      refreshes, walletTimer, gateway, unitCall>>

\* the wallet panel: lines 125-129
displayVars == <<solWalletAddress, solBalance, usdcBalance, isLoadingBalance>>

walletVars == <<solWalletAddress, solBalance, usdcBalance, isLoadingBalance,
                refreshes, walletTimer>>

\* the awaits of fetchSolanaWalletInfo, lines 663, 669 and 674
WalletQueries == {"getBalance", "getAccountInfo", "getTokenAccountBalance"}

\* the step received nothing
Nothing == [kind |-> "nothing"]

\* no call of amountToSmallestUnit is under study
NoCall == [value |-> <<>>, decimals |-> 0, returned |-> <<>>]

\* a step of the payment session that receives nothing and leaves the wallet
\* panel alone
Quiet ==
    /\ received' = Nothing
    /\ UNCHANGED <<walletVars, gateway, unitCall>>

Message(text, options) == [text |-> text, options |-> options]

\* newList[newList.length - 1] = m
ReplaceLast(list, m) == [list EXCEPT ![Len(list)] = m]

NoClosure ==
    [selectedPaymentOption |-> <<>>, orderId |-> "", resourceid |-> "",
     actualTransferAmount |-> <<>>, selectedAmount |-> <<>>, selectedNetwork |-> <<>>,
     amount |-> <<>>, decimals |-> 0, toTokenAccount |-> "", instructions |-> <<>>,
     directAccountInfo |-> <<>>, ataInfo |-> <<>>,
     amountInSmallestUnit |-> 0, payerUsdcLamports |-> 0, lamports |-> 0,
     signature |-> <<>>]

\* the state read by the handlers created in the current render
Snapshot ==
    [NoClosure EXCEPT !.selectedPaymentOption = selectedPaymentOption,
                      !.orderId = orderId,
                      !.resourceid = resourceid,
                      !.actualTransferAmount = actualTransferAmount,
                      !.selectedAmount = selectedAmount,
                      !.selectedNetwork = selectedNetwork]

\* the page after its first render
PageInit ==
    /\ step = "start"
    /\ chatList = <<Message("welcome", <<>>)>>
    /\ paymentOptions = <<>>
    /\ selectedPaymentOption = <<>>
    /\ orderId = ""
    /\ selectedAmount = <<>>
    /\ selectedToken = ""
    /\ selectedNetwork = Str_SolanaDevnet
    /\ actualTransferAmount = <<>>
    /\ txHash = <<>>
    /\ resourceid = ""
    /\ pc = "idle"
    /\ cl = NoClosure
    /\ successTimer = FALSE
    /\ paymentCalls = <<>>
    /\ confirmCalls = <<>>
    /\ ledgerTxs = <<>>
    /\ hist = {}
    /\ clickLog = <<>>
    /\ received = Nothing
    /\ solWalletAddress = ""
    /\ solBalance = <<"0">>
    /\ usdcBalance = <<"0">>
    /\ isLoadingBalance = TRUE
    /\ refreshes = [query \in WalletQueries |-> 0]
    /\ walletTimer = FALSE

Init ==
    /\ PageInit
    /\ gateway = "any"
    /\ unitCall = NoCall

(***************************************************************************)
(* What the page renders.                                                  *)
(***************************************************************************)
\* mutant: the start button is rendered again once the session has ended
StartButtonRendered_AfterTerminal == step \in {"start", "success", "failed"}

\* mutant: the start button is rendered unconditionally
StartButtonRendered_Always == TRUE

\* {step === 'start' && <Button onClick={handleStartPromotion}>}
StartButtonRendered == step = "start"

\* disabled={!['select_network', 'select_amount'].includes(step)}
OptionButtonsEnabled == step \in {"select_network", "select_amount"}

\* the option buttons of the chat: <<message index, option index>>
OptionButtons ==
    UNION {{<<i, j>> : j \in DOMAIN chatList[i].options} : i \in DOMAIN chatList}

(***************************************************************************)
(* handleStartPromotion and fetchPaymentInfo.                              *)
(***************************************************************************)
\* generateRandomLetters(8): some non-empty string
RandomResourceId == "resource"

\* lines 132-178: up to the await of resourcePayment
handleStartPromotion ==
    /\ chatList' = chatList \o <<Message("promote my tweet", <<>>),
                                 Message("fetching payment info", <<>>)>>
    /\ step' = "pending_payment_info"
    /\ paymentOptions' = <<>>
    /\ selectedPaymentOption' = <<>>
    /\ selectedToken' = ""
    /\ selectedNetwork' = Str_SolanaDevnet
    /\ selectedAmount' = <<>>
    /\ actualTransferAmount' = <<>>
    /\ txHash' = <<>>
    /\ resourceid' = RandomResourceId
    /\ paymentCalls' = Append(paymentCalls, RandomResourceId)
    /\ pc' = "resourcePayment"
    /\ cl' = Snapshot
    /\ hist' = {"start"}
    /\ UNCHANGED <<orderId, successTimer, confirmCalls, ledgerTxs, clickLog>>

ClickStart ==
    /\ StartButtonRendered
    /\ handleStartPromotion
    /\ Quiet

\* the one option of the gateway "single": Solana, decimals left to the default
SingleAccept ==
    [scheme |-> "exact", network |-> Str_Solana, decimals |-> <<>>, payTo |-> "payTo"]

\* data.accepts and data.orderId of the gateway's answer to resourcePayment
GatewayAccepts == IF gateway = "single" THEN {<<SingleAccept>>} ELSE AcceptsLists

GatewayOrderIds == IF gateway = "single" THEN {"order-1"} ELSE OrderIds

\* mutant: the network name is compared without toLowerCase()
IsSolana_CaseSensitive(accept) == Includes(accept.network, Str_sol)

\* (accept.network || '').toLowerCase().includes('sol')
IsSolana(accept) == Includes(ToLowerCase(accept.network), Str_sol)

\* accepts.filter(...)
RECURSIVE FilterSolana(_)
FilterSolana(accepts) ==
    IF accepts = <<>> THEN <<>>
    ELSE IF IsSolana(Head(accepts)) THEN <<Head(accepts)>> \o FilterSolana(Tail(accepts))
    ELSE FilterSolana(Tail(accepts))

\* solanaOptions.map((accept, index) => ({label, value: `${index}`}))
OptionButtonValues(solanaOptions) ==
    [i \in DOMAIN solanaOptions |-> NatToString(i - 1)]

\* lines 205-224 and 249-268
PresentOptions(solanaOptions, dataOrderId) ==
    /\ paymentOptions' = solanaOptions
    /\ orderId' = dataOrderId
    /\ chatList' = ReplaceLast(chatList,
                      Message("select network", OptionButtonValues(solanaOptions)))
    /\ step' = "select_network"
    /\ hist' = hist \cup {"options"}

\* lines 273-290, the else branch of the catch
FetchFailed ==
    /\ chatList' = ReplaceLast(chatList, Message("fetch failed", <<>>))
    /\ step' = "failed"
    /\ hist' = hist \cup {"fetchFailed"}
    /\ UNCHANGED <<paymentOptions, orderId>>

\* resourcePayment resolves with res = [code, accepts, orderId]
ResourcePaymentResolves ==
    /\ pc = "resourcePayment"
    /\ \E code \in {402, 200, 500}, accepts \in GatewayAccepts, oid \in GatewayOrderIds :
         LET solanaOptions == FilterSolana(accepts)
         IN  /\ received' = [kind |-> "resourcePayment", via |-> "resolved", code |-> code,
                           accepts |-> accepts, orderId |-> oid]
             /\ CASE code = 402 /\ solanaOptions # <<>> ->
                       PresentOptions(solanaOptions, oid)
                  [] code = 402 /\ solanaOptions = <<>> ->
                       \* throw new Error('No payment accepts found'), caught at line 240
                       FetchFailed
                  [] code = 200 ->
                       /\ step' = "success"
                       /\ chatList' = Append(chatList, Message("already paid", <<>>))
                       /\ hist' = hist \cup {"alreadyPaid"}
                       /\ UNCHANGED <<paymentOptions, orderId>>
                  [] OTHER ->
                       /\ hist' = hist \cup {"unhandledCode"}
                       /\ UNCHANGED <<step, chatList, paymentOptions, orderId>>
    /\ pc' = "idle"
    /\ UNCHANGED <<selectedPaymentOption, selectedAmount, selectedToken, selectedNetwork,
                   actualTransferAmount, txHash, resourceid, cl, successTimer,
                   paymentCalls, confirmCalls, ledgerTxs, clickLog>>
    /\ UNCHANGED <<walletVars, gateway, unitCall>>

\* resourcePayment rejects with error.response = [status, data: [accepts, orderId]]
ResourcePaymentRejects ==
    /\ pc = "resourcePayment"
    /\ \E status \in {402, 500}, accepts \in GatewayAccepts, oid \in GatewayOrderIds :
         LET solanaOptions == FilterSolana(accepts)
         IN  /\ received' = [kind |-> "resourcePayment", via |-> "rejected", code |-> status,
                           accepts |-> accepts, orderId |-> oid]
             /\ CASE status = 402 /\ solanaOptions # <<>> ->
                       PresentOptions(solanaOptions, oid)
                  [] status = 402 /\ solanaOptions = <<>> ->
                       \* throw error: caught by handleStartPromotion, lines 179-190
                       /\ chatList' = Append(chatList, Message("start failed", <<>>))
                       /\ step' = "failed"
                       /\ hist' = hist \cup {"fetchFailed"}
                       /\ UNCHANGED <<paymentOptions, orderId>>
                  [] OTHER -> FetchFailed
    /\ pc' = "idle"
    /\ UNCHANGED <<selectedPaymentOption, selectedAmount, selectedToken, selectedNetwork,
                   actualTransferAmount, txHash, resourceid, cl, successTimer,
                   paymentCalls, confirmCalls, ledgerTxs, clickLog>>
    /\ UNCHANGED <<walletVars, gateway, unitCall>>

(***************************************************************************)
(* handleSelectNetwork and handleSelectAmount.                             *)
(***************************************************************************)
\* Number(optionIndex) as the array index of paymentOptions[parsedIndex]:
\* <<n>> when the string is a decimal literal (optional '-', digits, optional
\* '.' and digits; Number('') is 0) whose value is the whole number n >= 0
\* (-0 indexes element 0), <<>> when it is NaN, negative or fractional and
\* so indexes nothing
ParseIndex(optionIndex) ==
    LET negative == optionIndex # <<>> /\ Head(optionIndex) = "-"
        body     == IF negative THEN Tail(optionIndex) ELSE optionIndex
        whole    == BeforeDot(body)
        fraction == AfterDot(body)
        numeric  == \/ optionIndex = <<>>
                    \/ /\ StripNonDigits(whole) = whole
                       /\ StripNonDigits(fraction) = fraction
                       /\ whole \o fraction # <<>>
    IN  IF /\ numeric
           /\ DigitsToNat(fraction) = 0
           /\ (negative => DigitsToNat(whole) = 0)
        THEN <<DigitsToNat(whole)>>
        ELSE <<>>

\* lines 295-330
handleSelectNetwork(optionIndex) ==
    LET parsedIndex == ParseIndex(optionIndex)
        found == /\ paymentOptions # <<>>
                 /\ parsedIndex # <<>>
                 /\ parsedIndex[1] + 1 \in DOMAIN paymentOptions
    IN  IF ~found
        THEN UNCHANGED <<reactState, pc, cl, hist>>
        ELSE LET option == paymentOptions[parsedIndex[1] + 1]
             IN  /\ selectedPaymentOption' = <<option>>
                 /\ selectedNetwork' = IF option.network = <<>> THEN Str_SolanaDevnet
                                       ELSE option.network
                 /\ selectedToken' = "USDC"
                 /\ chatList' = chatList \o <<Message("network chosen", <<>>),
                                              Message("select amount", AmountValues)>>
                 /\ step' = "select_amount"
                 /\ hist' = hist \cup {"selectNetwork"}
                 /\ UNCHANGED <<paymentOptions, orderId, selectedAmount,
                                actualTransferAmount, txHash, resourceid, pc, cl>>

\* mutant: the guard of lines 334-338 is missing; reading the payTo of the
\* missing option throws inside the try, and the catch sets 'failed'
handleSelectAmount_NoGuard(amount) ==
    IF selectedPaymentOption = <<>>
    THEN /\ selectedAmount' = amount
         /\ actualTransferAmount' = amount
         /\ chatList' = chatList \o <<Message("amount chosen", <<>>),
                                      Message("transfer failed", <<>>)>>
         /\ step' = "failed"
         /\ hist' = hist \cup {"selectAmount"}
         /\ UNCHANGED <<paymentOptions, selectedPaymentOption, orderId, selectedToken,
                        selectedNetwork, txHash, resourceid, pc, cl>>
    ELSE /\ selectedAmount' = amount
         /\ actualTransferAmount' = amount
         /\ chatList' = chatList \o <<Message("amount chosen", <<>>),
                                      Message("transferring", <<>>)>>
         /\ step' = "pending_transfer"
         /\ cl' = [Snapshot EXCEPT
                     !.amount = amount,
                     !.decimals = resolveDecimals(selectedPaymentOption[1].decimals,
                                                  SOLANA_DECIMALS)]
         /\ pc' = "resolve"
         /\ hist' = hist \cup {"selectAmount"}
         /\ UNCHANGED <<paymentOptions, selectedPaymentOption, orderId, selectedToken,
                        selectedNetwork, txHash, resourceid>>

\* lines 333-360: up to the first await of sendSolanaTransfer
handleSelectAmount(amount) ==
    IF selectedPaymentOption = <<>> \/ selectedToken = ""
    THEN UNCHANGED <<reactState, pc, cl, hist>>
    ELSE /\ selectedAmount' = amount
         /\ actualTransferAmount' = amount
         /\ chatList' = chatList \o <<Message("amount chosen", <<>>),
                                      Message("transferring", <<>>)>>
         /\ step' = "pending_transfer"
         /\ cl' = [Snapshot EXCEPT
                     !.amount = amount,
                     !.decimals = resolveDecimals(selectedPaymentOption[1].decimals,
                                                  SOLANA_DECIMALS)]
         /\ pc' = "resolve"
         /\ hist' = hist \cup {"selectAmount"}
         /\ UNCHANGED <<paymentOptions, selectedPaymentOption, orderId, selectedToken,
                        selectedNetwork, txHash, resourceid>>

\* lines 797-810: the onClick of an enabled option button
ClickOptionButton ==
    /\ OptionButtonsEnabled
    /\ \E b \in OptionButtons :
         LET value == chatList[b[1]].options[b[2]]
         IN  /\ clickLog' = Append(clickLog, [button |-> chatList[b[1]].text,
                                             value  |-> value,
                                             step   |-> step])
             /\ IF step = "select_network"
                THEN handleSelectNetwork(value)
                ELSE handleSelectAmount(value)
    /\ UNCHANGED <<successTimer, paymentCalls, confirmCalls, ledgerTxs>>
    /\ Quiet

(***************************************************************************)
(* The two selection handlers called with any argument, as a caller other  *)
(* than the rendered buttons (whose values are '0'..'n-1' and the amount   *)
(* labels) would call them.                                                *)
(***************************************************************************)
\* arguments of handleSelectNetwork: indexes, beyond the list, negative,
\* fractional, not a number, empty
IndexInputs ==
    {<<"0">>, <<"1">>, <<"2">>, <<"3">>, <<"-", "1">>, <<"0", ".", "5">>,
     <<"1", ".", "0">>, <<"-", "0">>, <<"a">>, <<>>}

\* arguments of handleSelectAmount
AmountInputs == {<<"0", ".", "1">>, <<"5">>, <<>>}

\* handleSelectNetwork(optionIndex) while the step is 'select_network'
InvokeSelectNetwork ==
    /\ step = "select_network"
    /\ \E optionIndex \in IndexInputs :
         /\ handleSelectNetwork(optionIndex)
         /\ received' = [kind |-> "handleSelectNetwork", value |-> optionIndex]
    /\ UNCHANGED <<successTimer, paymentCalls, confirmCalls, ledgerTxs, clickLog,
                   walletVars, gateway, unitCall>>

\* handleSelectAmount(amount) before any option has been selected
InvokeSelectAmount ==
    /\ selectedPaymentOption = <<>>
    /\ \E amount \in AmountInputs :
         /\ handleSelectAmount(amount)
         /\ received' = [kind |-> "handleSelectAmount", value |-> amount]
    /\ UNCHANGED <<successTimer, paymentCalls, confirmCalls, ledgerTxs, clickLog,
                   walletVars, gateway, unitCall>>

(***************************************************************************)
(* sendSolanaTransfer.                                                     *)
(***************************************************************************)
\* mutant: the catch reports the error but does not set the step
TransferFailed_StepKept ==
    /\ chatList' = ReplaceLast(chatList, Message("transfer failed", <<>>))
    /\ step' = step
    /\ pc' = "idle"

\* mutant: the catch reports the failure but leaves the step as it is
TransferFailed_KeepsStep ==
    /\ chatList' = ReplaceLast(chatList, Message("transfer failed", <<>>))
    /\ pc' = "idle"
    /\ UNCHANGED step

\* lines 380-393: the catch of handleSelectAmount
TransferFailed ==
    /\ chatList' = ReplaceLast(chatList, Message("transfer failed", <<>>))
    /\ step' = "failed"
    /\ pc' = "idle"

\* the outcome of the resolution: the error thrown ("" for none), the
\* destination, the instructions pushed before the transfer, and the accounts
\* read with getAccountInfo and getParsedAccountInfo
Resolved(account, instructions, lookups) ==
    [error |-> "", toTokenAccount |-> account, instructions |-> instructions,
     lookups |-> lookups]

ResolutionFailed(kind, lookups) ==
    [error |-> kind, toTokenAccount |-> "", instructions |-> <<>>, lookups |-> lookups]

\* line 418
IsTokenAccount(info) == info # <<>> /\ info[1].owner = "token"

\* lines 419-426: the recipient address is itself a token account
ResolveDirect(directAccountInfo) ==
    LET lookups == {"sender", "recipient", "recipient parsed"}
    IN  IF directAccountInfo[1].mint # "" /\ directAccountInfo[1].mint # "USDC"
        THEN ResolutionFailed("MintMismatch", lookups)
        ELSE Resolved("recipient", <<>>, lookups)

\* mutant: the mint of an existing associated account is not compared
ResolveAssociated_NoMintCheck(ataInfo) ==
    LET lookups == {"sender", "recipient", "recipientATA"}
    IN  IF ataInfo = <<>>
        THEN Resolved("recipientATA", <<"createAssociatedTokenAccount">>, lookups)
        ELSE IF ataInfo[1].owner # "token"
        THEN ResolutionFailed("OwnerProgramMismatch", lookups)
        ELSE Resolved("recipientATA", <<>>, lookups)

\* mutant: the creation instruction is pushed whether or not the account exists
ResolveAssociated_AlwaysCreates(ataInfo) ==
    LET lookups == {"sender", "recipient", "recipientATA"}
        create  == <<"createAssociatedTokenAccount">>
    IN  IF ataInfo = <<>> THEN Resolved("recipientATA", create, lookups)
        ELSE IF ataInfo[1].owner # "token"
        THEN ResolutionFailed("OwnerProgramMismatch", lookups)
        ELSE IF ataInfo[1].mint # "" /\ ataInfo[1].mint # "USDC"
        THEN ResolutionFailed("MintMismatch", lookups \cup {"recipientATA parsed"})
        ELSE Resolved("recipientATA", create, lookups \cup {"recipientATA parsed"})

\* lines 428-444: the recipient's associated token account
ResolveAssociated(ataInfo) ==
    LET lookups == {"sender", "recipient", "recipientATA"}
    IN  IF ataInfo = <<>>
        THEN Resolved("recipientATA", <<"createAssociatedTokenAccount">>, lookups)
        ELSE IF ataInfo[1].owner # "token"
        THEN ResolutionFailed("OwnerProgramMismatch", lookups)
        ELSE IF ataInfo[1].mint # "" /\ ataInfo[1].mint # "USDC"
        THEN ResolutionFailed("MintMismatch", lookups \cup {"recipientATA parsed"})
        ELSE Resolved("recipientATA", <<>>, lookups \cup {"recipientATA parsed"})

\* mutant: the associated account is used whatever the recipient address is
ResolveDestination_AlwaysAssociated(fromInfo, directAccountInfo, ataInfo) ==
    IF fromInfo = <<>> THEN ResolutionFailed("SenderAccountMissing", {"sender"})
    ELSE ResolveAssociated(ataInfo)

\* lines 407-445: the destination token account and the instructions that
\* precede the transfer, or the error thrown
ResolveDestination(fromInfo, directAccountInfo, ataInfo) ==
    IF fromInfo = <<>> THEN ResolutionFailed("SenderAccountMissing", {"sender"})
    ELSE IF IsTokenAccount(directAccountInfo) THEN ResolveDirect(directAccountInfo)
    ELSE ResolveAssociated(ataInfo)

\* what getAccountInfo() tells of an account: its owner program
AccountOwner(info) == IF info = <<>> THEN <<>> ELSE <<[owner |-> info[1].owner]>>

\* lines 398-445: keypair, account lookups; an RPC call may also reject.
\* getSolanaKeypair throws unless SOLANA_PRIVATE_KEY has been configured with
\* a valid key (keyOk).
SendTransferResolve ==
    /\ pc = "resolve"
    /\ \E keyOk \in BOOLEAN, rpcOk \in BOOLEAN,
          fromInfo \in SenderAccountInfos, directAccountInfo \in AccountInfos,
          ataInfo \in AccountInfos :
         LET r == ResolveDestination(fromInfo, directAccountInfo, ataInfo)
             error == IF ~keyOk THEN "KeypairInvalid"
                      ELSE IF ~rpcOk THEN "RpcFailed"
                      ELSE r.error
         IN  /\ received' = IF keyOk /\ rpcOk
                             THEN [kind |-> "ledger", fromInfo |-> fromInfo,
                                   directAccountInfo |-> directAccountInfo,
                                   ataInfo |-> ataInfo, lookups |-> r.lookups]
                             ELSE Nothing
             /\ IF error = ""
                THEN /\ cl' = [cl EXCEPT
                                 !.toTokenAccount = r.toTokenAccount,
                                 !.instructions = r.instructions,
                                 !.directAccountInfo = AccountOwner(directAccountInfo),
                                 !.ataInfo = IF "recipientATA" \in r.lookups
                                             THEN AccountOwner(ataInfo) ELSE <<>>]
                     /\ pc' = "balances"
                     /\ UNCHANGED <<step, chatList, hist>>
                ELSE /\ TransferFailed
                     /\ hist' = hist \cup {"transferFailed", error}
                     /\ UNCHANGED cl
    /\ UNCHANGED <<paymentOptions, selectedPaymentOption, orderId, selectedAmount,
                   selectedToken, selectedNetwork, actualTransferAmount, txHash,
                   resourceid, successTimer, paymentCalls, confirmCalls, ledgerTxs,
                   clickLog>>
    /\ UNCHANGED <<walletVars, gateway, unitCall>>

\* mutant: the native balance is not checked
BalanceError_NoFeeCheck(payerUsdcLamports, lamports, amountInSmallestUnit) ==
    IF payerUsdcLamports < amountInSmallestUnit THEN "InsufficientBalance"
    ELSE ""

\* lines 451-461: the error thrown by the balance checks, "" when both pass
BalanceError(payerUsdcLamports, lamports, amountInSmallestUnit) ==
    IF payerUsdcLamports < amountInSmallestUnit THEN "InsufficientBalance"
    ELSE IF lamports < minLamports THEN "InsufficientFee"
    ELSE ""

\* lines 447-472
SendTransferBalances ==
    /\ pc = "balances"
    /\ \E rpcOk \in BOOLEAN, payerUsdcLamports \in TokenBalances,
          lamports \in NativeBalances :
         LET amountInSmallestUnit == amountToSmallestUnit(cl.amount, cl.decimals)
             error == IF ~rpcOk THEN "RpcFailed"
                      ELSE BalanceError(payerUsdcLamports, lamports,
                                        amountInSmallestUnit)
         IN  IF error = ""
             THEN /\ cl' = [cl EXCEPT
                              !.amountInSmallestUnit = amountInSmallestUnit,
                              !.payerUsdcLamports = payerUsdcLamports,
                              !.lamports = lamports,
                              !.instructions = Append(cl.instructions, "transfer")]
                  /\ pc' = "submit"
                  /\ UNCHANGED <<step, chatList, hist>>
             ELSE /\ TransferFailed
                  /\ hist' = hist \cup {"transferFailed", error}
                  /\ UNCHANGED cl
    /\ UNCHANGED <<paymentOptions, selectedPaymentOption, orderId, selectedAmount,
                   selectedToken, selectedNetwork, actualTransferAmount, txHash,
                   resourceid, successTimer, paymentCalls, confirmCalls, ledgerTxs,
                   clickLog>>
    /\ Quiet

\* the signature of the n-th transaction the ledger accepted
Signature(n) == <<"signature", n>>

\* mutant: the transaction id is stored as soon as the transaction is sent
SendTransferSubmit_StoresTxHash ==
    /\ pc = "submit"
    /\ \E accepted \in BOOLEAN :
         IF accepted
         THEN LET signature == Signature(Len(ledgerTxs) + 1)
              IN  /\ ledgerTxs' = Append(ledgerTxs,
                        [instructions |-> cl.instructions,
                         destination  |-> cl.toTokenAccount,
                         amount       |-> cl.amountInSmallestUnit,
                         payerUsdcLamports |-> cl.payerUsdcLamports,
                         lamports     |-> cl.lamports,
                         signature    |-> signature])
                  /\ cl' = [cl EXCEPT !.signature = signature]
                  /\ txHash' = signature
                  /\ pc' = "confirmTransaction"
                  /\ UNCHANGED <<step, chatList, hist>>
         ELSE /\ TransferFailed
              /\ hist' = hist \cup {"transferFailed", "SubmissionFailed"}
              /\ UNCHANGED <<cl, ledgerTxs, txHash>>
    /\ UNCHANGED <<paymentOptions, selectedPaymentOption, orderId, selectedAmount,
                   selectedToken, selectedNetwork, actualTransferAmount,
                   resourceid, successTimer, paymentCalls, confirmCalls, clickLog>>
    /\ Quiet

\* lines 474-480: getLatestBlockhash and sendTransaction, either may reject
SendTransferSubmit ==
    /\ pc = "submit"
    /\ \E accepted \in BOOLEAN :
         IF accepted
         THEN LET signature == Signature(Len(ledgerTxs) + 1)
              IN  /\ ledgerTxs' = Append(ledgerTxs,
                        [instructions |-> cl.instructions,
                         destination  |-> cl.toTokenAccount,
                         amount       |-> cl.amountInSmallestUnit,
                         payerUsdcLamports |-> cl.payerUsdcLamports,
                         lamports     |-> cl.lamports,
                         signature    |-> signature])
                  /\ cl' = [cl EXCEPT !.signature = signature]
                  /\ pc' = "confirmTransaction"
                  /\ UNCHANGED <<step, chatList, hist>>
         ELSE /\ TransferFailed
              /\ hist' = hist \cup {"transferFailed", "SubmissionFailed"}
              /\ UNCHANGED <<cl, ledgerTxs>>
    /\ UNCHANGED <<paymentOptions, selectedPaymentOption, orderId, selectedAmount,
                   selectedToken, selectedNetwork, actualTransferAmount, txHash,
                   resourceid, successTimer, paymentCalls, confirmCalls, clickLog>>
    /\ Quiet

\* mutant: on expiry the transaction is sent again and the wait repeated
ConfirmTransactionReturns_Resubmits ==
    /\ pc = "confirmTransaction"
    /\ \E outcome \in ConfirmOutcomes :
         IF outcome = "expired"
         THEN LET signature == Signature(Len(ledgerTxs) + 1)
              IN  /\ ledgerTxs' = Append(ledgerTxs,
                        [ledgerTxs[Len(ledgerTxs)] EXCEPT !.signature = signature])
                  /\ cl' = [cl EXCEPT !.signature = signature]
                  /\ UNCHANGED <<txHash, chatList, step, pc, hist, walletTimer>>
         ELSE /\ txHash' = cl.signature
              /\ chatList' = ReplaceLast(chatList, Message("transfer sent", <<>>))
              /\ step' = "pending_confirm"
              /\ pc' = "confirmPayment"
              /\ hist' = hist \cup {"transferReturned"} \cup
                         (IF outcome = "err" THEN {"transactionError"} ELSE {})
              /\ walletTimer' = TRUE
              /\ UNCHANGED <<cl, ledgerTxs>>
    /\ UNCHANGED <<paymentOptions, selectedPaymentOption, orderId, selectedAmount,
                   selectedToken, selectedNetwork, actualTransferAmount,
                   resourceid, successTimer, paymentCalls, confirmCalls, clickLog>>
    /\ received' = Nothing
    /\ UNCHANGED <<displayVars, refreshes, gateway, unitCall>>

\* lines 483-498 and 362-376: confirmTransaction rejects when the block height
\* is exceeded; it resolves when the transaction is confirmed, also when
\* its result carries a transaction error (value.err is not read)
ConfirmTransactionReturns ==
    /\ pc = "confirmTransaction"
    /\ \E outcome \in ConfirmOutcomes :
         IF outcome = "expired"
         THEN /\ TransferFailed
              /\ hist' = hist \cup {"transferFailed", "ConfirmationTimeout"}
              /\ UNCHANGED <<txHash, walletTimer>>
         ELSE /\ txHash' = cl.signature
              /\ chatList' = ReplaceLast(chatList, Message("transfer sent", <<>>))
              /\ step' = "pending_confirm"
              /\ pc' = "confirmPayment"
              /\ hist' = hist \cup {"transferReturned"} \cup
                         (IF outcome = "err" THEN {"transactionError"} ELSE {})
              \* lines 494-496: setTimeout(fetchWalletInfo, 2000)
              /\ walletTimer' = TRUE
    /\ UNCHANGED <<paymentOptions, selectedPaymentOption, orderId, selectedAmount,
                   selectedToken, selectedNetwork, actualTransferAmount,
                   resourceid, cl, successTimer, paymentCalls, confirmCalls, ledgerTxs,
                   clickLog>>
    /\ received' = Nothing
    /\ UNCHANGED <<displayVars, refreshes, gateway, unitCall>>

(***************************************************************************)
(* confirmPayment.                                                         *)
(***************************************************************************)
\* a || b on strings
OrElse(a, b) == IF a # <<>> THEN a ELSE b

\* lines 530-547: xPaymentData, built from the closure of the handler that
\* called confirmPayment(hash, option, decimals)
XPaymentData(closure, hash, option, decimalsOverride) ==
    LET amountToUse == OrElse(closure.actualTransferAmount, closure.selectedAmount)
        amountInSmallestUnit ==
            NatToString(amountToSmallestUnit(amountToUse, decimalsOverride))
    IN  [x402Version |-> 1,
         scheme      |-> option.scheme,
         network     |-> OrElse(option.network,
                                OrElse(closure.selectedNetwork, Str_Solana)),
         orderId     |-> closure.orderId,
         payload     |-> [amount |-> amountInSmallestUnit, txHash |-> hash]]

\* mutant: the order id is not checked
MissingParameters_NoOrderId(closure, option) ==
    \/ closure.resourceid = ""
    \/ option = <<>>

\* lines 508 and 513: the parameter checks of confirmPayment
MissingParameters(closure, option) ==
    \/ closure.resourceid = ""
    \/ closure.orderId = ""
    \/ option = <<>>

\* lines 379 and 507-553: confirmPayment up to the await of
\* resourcePaymentConfirm; it runs in the task that set pending_confirm
ConfirmPaymentBegins ==
    /\ pc = "confirmPayment"
    /\ IF MissingParameters(cl, cl.selectedPaymentOption)
       THEN \* thrown before the try: only the catch of handleSelectAmount runs
            /\ TransferFailed
            /\ hist' = hist \cup {"confirmNotSent"}
            /\ UNCHANGED confirmCalls
       ELSE /\ chatList' = Append(chatList, Message("confirming", <<>>))
            /\ confirmCalls' = Append(confirmCalls,
                  [resourceid |-> cl.resourceid,
                   xPayment   |-> XPaymentData(cl, cl.signature,
                                               cl.selectedPaymentOption[1],
                                               cl.decimals)])
            /\ pc' = "resourcePaymentConfirm"
            /\ UNCHANGED <<step, hist>>
    /\ UNCHANGED <<paymentOptions, selectedPaymentOption, orderId, selectedAmount,
                   selectedToken, selectedNetwork, actualTransferAmount, txHash,
                   resourceid, cl, successTimer, paymentCalls, ledgerTxs, clickLog>>
    \* line 507: the arguments of confirmPayment
    /\ received' = [kind |-> "confirmPayment", txHash |-> cl.signature,
                    paymentOption |-> cl.selectedPaymentOption,
                    decimalsOverride |-> cl.decimals]
    /\ UNCHANGED <<walletVars, gateway, unitCall>>

\* res.code || res.status || res.data?.code
responseCode(res) ==
    IF res.code # 0 THEN res.code
    ELSE IF res.status # 0 THEN res.status
    ELSE res.dataCode

\* res.message || res.data?.message || ''
responseMessage(res) == OrElse(res.message, res.dataMessage)

\* line 568
IsWaiting(res) ==
    \/ responseMessage(res) = Str_WaitingForPayment
    \/ Includes(responseMessage(res), Str_Waiting)

\* mutant: a response without a code is a success whatever its message
IsConfirmed_AnyWithoutCode(res) ==
    \/ responseCode(res) = 200
    \/ responseCode(res) = 0

\* line 603
IsConfirmed(res) ==
    \/ responseCode(res) = 200
    \/ (responseCode(res) = 0 /\ responseMessage(res) = <<>>)

\* lines 620-633 followed by lines 380-393: both catches replace the last
\* message and set 'failed'
ConfirmFailed(kind) ==
    /\ chatList' = ReplaceLast(chatList, Message("transfer failed", <<>>))
    /\ step' = "failed"
    /\ hist' = hist \cup {"confirmFailed", kind}
    /\ UNCHANGED successTimer

\* mutant: the "Waiting" branch does not return, so the checks of line 603
\* run on the same response
ResourcePaymentConfirmResolves_NoReturn ==
    /\ pc = "resourcePaymentConfirm"
    /\ \E res \in ConfirmResponses :
         /\ received' = [kind |-> "resourcePaymentConfirm", via |-> "resolved",
                         res |-> res]
         /\ IF IsWaiting(res) /\ IsConfirmed(res)
            THEN /\ step' = "success"
                 /\ chatList' = ReplaceLast(chatList, Message("confirmed", <<>>))
                 /\ successTimer' = TRUE
                 /\ hist' = hist \cup {"waiting", "confirmed"}
            ELSE IF IsWaiting(res)
            THEN /\ chatList' = ReplaceLast(chatList, Message("transfer failed", <<>>))
                 /\ step' = "failed"
                 /\ successTimer' = TRUE
                 /\ hist' = hist \cup {"waiting", "confirmFailed", "GatewayRejected"}
            ELSE IF IsConfirmed(res)
            THEN /\ step' = "success"
                 /\ chatList' = ReplaceLast(chatList, Message("confirmed", <<>>))
                 /\ hist' = hist \cup {"confirmed"}
                 /\ UNCHANGED successTimer
            ELSE ConfirmFailed("GatewayRejected")
    /\ pc' = "idle"
    /\ UNCHANGED <<paymentOptions, selectedPaymentOption, orderId, selectedAmount,
                   selectedToken, selectedNetwork, actualTransferAmount, txHash,
                   resourceid, cl, paymentCalls, confirmCalls, ledgerTxs, clickLog>>
    /\ UNCHANGED <<walletVars, gateway, unitCall>>

\* lines 553-619: resourcePaymentConfirm resolves with res
ResourcePaymentConfirmResolves ==
    /\ pc = "resourcePaymentConfirm"
    /\ \E res \in ConfirmResponses :
         /\ received' = [kind |-> "resourcePaymentConfirm", via |-> "resolved",
                         res |-> res]
         /\ IF IsWaiting(res)
            THEN /\ chatList' = ReplaceLast(chatList, Message("waiting", <<>>))
                 /\ successTimer' = TRUE
                 /\ hist' = hist \cup {"waiting"}
                 /\ UNCHANGED step
            ELSE IF IsConfirmed(res)
            THEN /\ step' = "success"
                 /\ chatList' = ReplaceLast(chatList, Message("confirmed", <<>>))
                 /\ hist' = hist \cup {"confirmed"}
                 /\ UNCHANGED successTimer
            ELSE ConfirmFailed("GatewayRejected")
    /\ pc' = "idle"
    /\ UNCHANGED <<paymentOptions, selectedPaymentOption, orderId, selectedAmount,
                   selectedToken, selectedNetwork, actualTransferAmount, txHash,
                   resourceid, cl, paymentCalls, confirmCalls, ledgerTxs, clickLog>>
    /\ UNCHANGED <<walletVars, gateway, unitCall>>

\* resourcePaymentConfirm rejects
ResourcePaymentConfirmRejects ==
    /\ pc = "resourcePaymentConfirm"
    /\ ConfirmFailed("GatewayCallFailed")
    /\ pc' = "idle"
    /\ received' = [kind |-> "resourcePaymentConfirm", via |-> "rejected",
                    res |-> NoResponse]
    /\ UNCHANGED <<paymentOptions, selectedPaymentOption, orderId, selectedAmount,
                   selectedToken, selectedNetwork, actualTransferAmount, txHash,
                   resourceid, cl, paymentCalls, confirmCalls, ledgerTxs, clickLog>>
    /\ UNCHANGED <<walletVars, gateway, unitCall>>

\* lines 580-598: the timer set on a "Waiting" response fires
SuccessTimerFires ==
    /\ successTimer
    /\ successTimer' = FALSE
    /\ step' = "success"
    /\ chatList' = Append(chatList, Message("submitted", <<>>))
    /\ hist' = hist \cup {"timerSuccess"}
    /\ UNCHANGED <<paymentOptions, selectedPaymentOption, orderId, selectedAmount,
                   selectedToken, selectedNetwork, actualTransferAmount, txHash,
                   resourceid, pc, cl, paymentCalls, confirmCalls, ledgerTxs, clickLog>>
    /\ Quiet

(***************************************************************************)
(* fetchWalletInfo and fetchSolanaWalletInfo: the wallet panel.            *)
(***************************************************************************)
\* connection.getBalance(): lamports
WalletLamports == {10000000}
\* balance.value.uiAmountString; <<>> when missing
UiAmountStrings == {<<>>, <<"2">>}

\* s without its trailing '0' characters
RECURSIVE TrimZeros(_)
TrimZeros(s) ==
    IF s # <<>> /\ s[Len(s)] = "0" THEN TrimZeros(SubSeq(s, 1, Len(s) - 1)) ELSE s

\* (lamports / LAMPORTS_PER_SOL).toString(), for amounts of at least 1e-6 SOL
\* (smaller ones print in exponent notation)
LamportsToSol(lamports) ==
    LET whole    == NatToString(lamports \div LAMPORTS_PER_SOL)
        part     == NatToString(lamports % LAMPORTS_PER_SOL)
        fraction == TrimZeros(Zeros(9 - Len(part)) \o part)
    IN  IF fraction = <<>> THEN whole ELSE whole \o <<".">> \o fraction

\* the number of fetchWalletInfo calls suspended at one of `queries`
RECURSIVE InFlight(_)
InFlight(queries) ==
    IF queries = {} THEN 0
    ELSE LET query == CHOOSE q \in queries : TRUE
         IN  refreshes[query] + InFlight(queries \ {query})

\* the call suspended at `from` resumes and suspends at `to`
Resume(from, to) ==
    refreshes' = [refreshes EXCEPT ![from] = @ - 1, ![to] = @ + 1]

\* lines 693-695: the call suspended at `from` ends
Finish(from) ==
    /\ refreshes' = [refreshes EXCEPT ![from] = @ - 1]
    /\ isLoadingBalance' = FALSE

\* lines 680-685: the outer catch of fetchSolanaWalletInfo
WalletInfoFailed ==
    /\ solWalletAddress' = ""
    /\ solBalance' = <<"0">>
    /\ usdcBalance' = <<"0">>

\* lines 688-696 and 656-663: fetchWalletInfo up to the await of getBalance;
\* getSolanaKeypair throws unless a valid key is configured
fetchWalletInfo ==
    /\ InFlight(WalletQueries) < MaxRefreshes
    /\ \E keyOk \in BOOLEAN :
         IF keyOk
         THEN /\ isLoadingBalance' = TRUE
              /\ solWalletAddress' = "payerAddress"
              /\ refreshes' = [refreshes EXCEPT !["getBalance"] = @ + 1]
              /\ UNCHANGED <<solBalance, usdcBalance>>
         ELSE /\ WalletInfoFailed
              /\ isLoadingBalance' = FALSE
              /\ UNCHANGED refreshes
    /\ received' = Nothing
    /\ UNCHANGED <<reactState, pc, cl, successTimer, paymentCalls, confirmCalls,
                   ledgerTxs, hist, clickLog, gateway, unitCall>>

\* lines 699-709: the effect run on mount, and every 30 s after it
WalletInterval ==
    /\ fetchWalletInfo
    /\ UNCHANGED walletTimer

\* line 752: the refresh button, rendered while isLoadingBalance is false
ClickRefresh ==
    /\ ~isLoadingBalance
    /\ fetchWalletInfo
    /\ UNCHANGED walletTimer

\* lines 494-496: the timer set by sendSolanaTransfer fires
WalletTimerFires ==
    /\ walletTimer
    /\ walletTimer' = FALSE
    /\ fetchWalletInfo

\* mutant: the outer catch also fails the session
GetBalanceReturns_FailsSession ==
    /\ refreshes["getBalance"] > 0
    /\ \E ok \in BOOLEAN, lamports \in WalletLamports :
         IF ok
         THEN /\ solBalance' = LamportsToSol(lamports)
              /\ Resume("getBalance", "getAccountInfo")
              /\ UNCHANGED <<solWalletAddress, usdcBalance, isLoadingBalance, step>>
         ELSE /\ WalletInfoFailed
              /\ Finish("getBalance")
              /\ step' = "failed"
    /\ received' = Nothing
    /\ UNCHANGED <<chatList, paymentOptions, selectedPaymentOption, orderId,
                   selectedAmount, selectedToken, selectedNetwork,
                   actualTransferAmount, txHash, resourceid, pc, cl, successTimer,
                   paymentCalls, confirmCalls, ledgerTxs, hist, clickLog, walletTimer,
                   gateway, unitCall>>

\* lines 663-664: getBalance returns, or rejects
GetBalanceReturns ==
    /\ refreshes["getBalance"] > 0
    /\ \E ok \in BOOLEAN, lamports \in WalletLamports :
         IF ok
         THEN /\ solBalance' = LamportsToSol(lamports)
              /\ Resume("getBalance", "getAccountInfo")
              /\ UNCHANGED <<solWalletAddress, usdcBalance, isLoadingBalance>>
         ELSE /\ WalletInfoFailed
              /\ Finish("getBalance")
    /\ received' = Nothing
    /\ UNCHANGED <<reactState, pc, cl, successTimer, paymentCalls, confirmCalls,
                   ledgerTxs, hist, clickLog, walletTimer, gateway, unitCall>>

\* lines 669-679: getAccountInfo(tokenAccount) returns null or the account,
\* or rejects
GetAccountInfoReturns ==
    /\ refreshes["getAccountInfo"] > 0
    /\ \E tokenInfo \in {"null", "account", "rejected"} :
         IF tokenInfo = "account"
         THEN /\ Resume("getAccountInfo", "getTokenAccountBalance")
              /\ UNCHANGED <<usdcBalance, isLoadingBalance>>
         ELSE /\ usdcBalance' = <<"0">>
              /\ Finish("getAccountInfo")
    /\ received' = Nothing
    /\ UNCHANGED <<reactState, pc, cl, successTimer, paymentCalls, confirmCalls,
                   ledgerTxs, hist, clickLog, solWalletAddress, solBalance,
                   walletTimer, gateway, unitCall>>

\* lines 674-679: getTokenAccountBalance returns, or rejects
GetTokenAccountBalanceReturns ==
    /\ refreshes["getTokenAccountBalance"] > 0
    /\ \E ok \in BOOLEAN, uiAmountString \in UiAmountStrings :
         usdcBalance' = IF ok THEN OrElse(uiAmountString, <<"0">>) ELSE <<"0">>
    /\ Finish("getTokenAccountBalance")
    /\ received' = Nothing
    /\ UNCHANGED <<reactState, pc, cl, successTimer, paymentCalls, confirmCalls,
                   ledgerTxs, hist, clickLog, solWalletAddress, solBalance,
                   walletTimer, gateway, unitCall>>

(***************************************************************************)
(* amountToSmallestUnit as a function of its arguments.                    *)
(***************************************************************************)
\* the characters of an amount string: digits, the separator, a non-digit
AmountChars == {"0", "1", "9", ".", "a"}

AmountStrings == SeqsUpTo(AmountChars, MaxAmountLen)

\* the amounts of the buttons and longer inputs, with the decimals in use
LongAmounts ==
    {<<"0", ".", "1", "2", "3", "4", "5", "6", "7">>,
     <<"a", "b", "c", ".", "d", "e", "f">>,
     <<"1", "2", ".", "5", ".", "7", "5">>,
     <<"0", ".", "1">>, <<"0", ".", "2">>, <<"0", ".", "3">>}

ConversionCalls ==
    {[value |-> v, decimals |-> d, returned |-> <<>>] :
        v \in AmountStrings, d \in 0..MaxDecimals}
    \cup
    {[value |-> v, decimals |-> d, returned |-> <<>>] :
        v \in LongAmounts, d \in {2, SOLANA_DECIMALS}}

\* the call returns
CallAmountToSmallestUnit ==
    /\ unitCall.returned = <<>>
    /\ unitCall' = [unitCall EXCEPT
                      !.returned = <<amountToSmallestUnit(unitCall.value,
                                                          unitCall.decimals)>>]
    /\ UNCHANGED <<reactState, pc, cl, successTimer, paymentCalls, confirmCalls,
                   ledgerTxs, hist, clickLog, received, walletVars, gateway>>

(***************************************************************************)
(* Specification.                                                          *)
(***************************************************************************)
Next ==
    \/ ClickStart
    \/ ResourcePaymentResolves
    \/ ResourcePaymentRejects
    \/ ClickOptionButton
    \/ SendTransferResolve
    \/ SendTransferBalances
    \/ SendTransferSubmit
    \/ ConfirmTransactionReturns
    \/ ConfirmPaymentBegins
    \/ ResourcePaymentConfirmResolves
    \/ ResourcePaymentConfirmRejects
    \/ SuccessTimerFires

Spec == Init /\ [][Next]_vars

\* The page, and callers that invoke the selection handlers directly.
HandlerNext ==
    \/ Next
    \/ InvokeSelectNetwork
    \/ InvokeSelectAmount

HandlerSpec == Init /\ [][HandlerNext]_vars

\* Every call of sendSolanaTransfer to the ledger returns or fails, and the
\* block height passes lastValidBlockHeight unless the transaction is
\* confirmed first: the awaits of lines 408-490 are all left.
TransferLiveSpec ==
    /\ Init
    /\ [][Next]_vars
    /\ WF_vars(SendTransferResolve)
    /\ WF_vars(SendTransferBalances)
    /\ WF_vars(SendTransferSubmit)
    /\ WF_vars(ConfirmTransactionReturns)

\* The page with its wallet panel, against a gateway that offers one option.
WalletInit ==
    /\ PageInit
    /\ gateway = "single"
    /\ unitCall = NoCall

WalletNext ==
    \/ Next
    \/ WalletInterval
    \/ ClickRefresh
    \/ WalletTimerFires
    \/ GetBalanceReturns
    \/ GetAccountInfoReturns
    \/ GetTokenAccountBalanceReturns

WalletSpec == WalletInit /\ [][WalletNext]_vars

\* amountToSmallestUnit called with every amount string of up to MaxAmountLen
\* characters and the amounts of its callers.
ConversionInit ==
    /\ PageInit
    /\ gateway = "any"
    /\ unitCall \in ConversionCalls

ConversionNext == CallAmountToSmallestUnit

ConversionSpec == ConversionInit /\ [][ConversionNext]_vars

\* The callback of a pending setTimeout is run by the event loop: the timer
\* of confirmPayment fires.
LiveSpec == Init /\ [][Next]_vars /\ WF_vars(SuccessTimerFires)

(***************************************************************************)
(* Sanity of the model: a handler is in flight only while no button that   *)
(* could start another one is rendered enabled, so one `pc` suffices.      *)
(***************************************************************************)
TypeOK ==
    /\ step \in {"start", "pending_payment_info", "select_network", "select_amount",
                 "pending_transfer", "pending_confirm", "success", "failed"}
    /\ pc \in {"idle", "resourcePayment", "resolve", "balances", "submit",
               "confirmTransaction", "confirmPayment", "resourcePaymentConfirm"}
    /\ successTimer \in BOOLEAN
    /\ Len(selectedPaymentOption) <= 1
    /\ isLoadingBalance \in BOOLEAN
    /\ walletTimer \in BOOLEAN
    /\ refreshes \in [WalletQueries -> 0..MaxRefreshes]
    /\ solWalletAddress \in {"", "payerAddress"}

OneHandlerInFlight ==
    (StartButtonRendered \/ OptionButtonsEnabled) => pc = "idle"

(***************************************************************************)
(* Claims.                                                                 *)
(***************************************************************************)
\* the transaction of ledgerTxs that carries signature sig
TxOf(sig) == ledgerTxs[CHOOSE t \in DOMAIN ledgerTxs : ledgerTxs[t].signature = sig]

\* C1: the amount in the payload of every X-PAYMENT sent to the gateway is the
\* decimal string of the minor-unit amount moved by the transfer instruction
\* of the transaction whose id the payload carries.
C1_ProofAmountIsTransferredAmount ==
    \A i \in DOMAIN confirmCalls :
        LET payload == confirmCalls[i].xPayment.payload
        IN  /\ \E t \in DOMAIN ledgerTxs : ledgerTxs[t].signature = payload.txHash
            /\ payload.amount = NatToString(TxOf(payload.txHash).amount)

\* C2: whenever the step is 'success', either the gateway answered the
\* payment-options request with "already paid" (and nothing else happened in
\* the session), or a non-empty orderId is stored and txHash holds the id of
\* a submitted transaction that sendSolanaTransfer returned.
C2_SucceededHasOrderAndReceipt ==
    step = "success" =>
        \/ hist = {"start", "alreadyPaid"}
        \/ /\ orderId # ""
           /\ txHash # <<>>
           /\ \E t \in DOMAIN ledgerTxs : ledgerTxs[t].signature = txHash
           /\ "transferReturned" \in hist

C2_Witness ==
    /\ step = "success"
    /\ "alreadyPaid" \notin hist
    /\ "timerSuccess" \in hist

\* C3: a click on a network/token option button dispatched while the step
\* is 'select_amount' or later changes neither the step, the selected option,
\* the selected amount nor the transaction id, and starts no ledger or gateway
\* call.
C3_LateNetworkClickIsNoOp ==
    [][(/\ Len(clickLog') = Len(clickLog) + 1
        /\ clickLog'[Len(clickLog')].button = "select network"
        /\ step \notin {"start", "pending_payment_info", "select_network"})
       => UNCHANGED <<step, selectedPaymentOption, selectedAmount, txHash, pc,
                      paymentCalls, confirmCalls, ledgerTxs>>]_vars

ListedTransitions ==
    {<<"start", "pending_payment_info">>,
     <<"pending_payment_info", "select_network">>,
     <<"pending_payment_info", "success">>,
     <<"pending_payment_info", "failed">>,
     <<"select_network", "select_amount">>,
     <<"select_amount", "pending_transfer">>,
     <<"pending_transfer", "pending_confirm">>,
     <<"pending_transfer", "failed">>,
     <<"pending_confirm", "success">>,
     <<"pending_confirm", "failed">>}

\* C4: every change of the step is one of the listed transitions.
C4_OnlyListedTransitions ==
    [][step' # step => <<step, step'>> \in ListedTransitions]_vars

C4_Witness ==
    /\ step = "failed"
    /\ "confirmFailed" \in hist
    /\ Len(clickLog) = 2

\* C5: every submitted transaction was preceded by a token balance query of
\* at least its amount and a native balance query of at least 10,000,000
\* lamports; and once a balance check has failed the session has failed with
\* no transaction submitted.
C5_NoSubmissionWithoutFunds ==
    /\ \A t \in DOMAIN ledgerTxs :
          /\ ledgerTxs[t].payerUsdcLamports >= ledgerTxs[t].amount
          /\ ledgerTxs[t].lamports >= 10000000
    /\ (hist \cap {"InsufficientBalance", "InsufficientFee"} # {}) =>
          (ledgerTxs = <<>> /\ step = "failed" /\ pc = "idle")

C5_Witness ==
    /\ "InsufficientBalance" \in hist
    /\ cl.amount = <<"0", ".", "2">>
    /\ cl.decimals = 6
    /\ ledgerTxs = <<>>

\* C6: once sendSolanaTransfer has thrown, the step is 'failed', the selected
\* option and amount are those chosen by the user, no transaction id is
\* stored and no confirmation request has been sent.
C6_ExecutorFailureLeavesSelections ==
    "transferFailed" \in hist =>
        /\ step = "failed"
        /\ selectedPaymentOption # <<>>
        /\ selectedPaymentOption = cl.selectedPaymentOption
        /\ selectedAmount = cl.amount
        /\ selectedAmount = clickLog[Len(clickLog)].value
        /\ txHash = <<>>
        /\ confirmCalls = <<>>
        /\ pc = "idle"

C6_Witness ==
    /\ "ConfirmationTimeout" \in hist
    /\ step = "failed"

\* C7: at most one transaction is ever submitted to the ledger.
C7_AtMostOneSubmission == Len(ledgerTxs) <= 1

C7_Witness ==
    /\ Len(ledgerTxs) = 1
    /\ "ConfirmationTimeout" \in hist
    /\ Len(clickLog) = 2

C9_StartAcceptedAfterFailed ==
    step = "failed" => ENABLED ClickStart

\* C10: while the step is 'pending_payment_info', 'select_network',
\* 'select_amount', 'pending_transfer' or 'pending_confirm', no start-request
\* is accepted and exactly one payment-options request has been issued.
C10_NoStartWhileActive ==
    step \in {"pending_payment_info", "select_network", "select_amount",
              "pending_transfer", "pending_confirm"} =>
        /\ ~ENABLED ClickStart
        /\ Len(paymentCalls) = 1

C10_Witness ==
    /\ step = "pending_confirm"
    /\ pc = "resourcePaymentConfirm"

\* the response the last step received from resourcePaymentConfirm
ConfirmReply == received.kind = "resourcePaymentConfirm"

\* the response carries the text "Waiting" in its message
SaysWaiting(res) ==
    \/ res.message = Str_WaitingForPayment
    \/ (res.message = <<>> /\ res.dataMessage = Str_Waiting)

\* C11 as stated: after the answer of the gateway to the confirmation the
\* step is 'success' only when the answer carries a code or status 200 or
\* the text "Waiting"; after any other answer, and after a call that
\* failed, the step is 'failed'.
C11_SuccessOnlyOn200OrWaiting ==
    ConfirmReply =>
        LET res == received.res
            ok  == /\ received.via = "resolved"
                   /\ \/ res.code = 200 \/ res.status = 200 \/ res.dataCode = 200
                      \/ SaysWaiting(res)
        IN  /\ step = "success" => ok
            /\ ~ok => step = "failed"

\* C11, amended: the answer is pending when its message (message, else
\* data.message) carries "Waiting": the step stays 'pending_confirm' and the
\* timer is set; otherwise it is a success when its code (code, else status,
\* else data.code) is 200, or when it has neither a code nor a message: the
\* step is 'success'; after any other answer, and after a call that failed,
\* the step is 'failed'.  The timer is the only other way to 'success'.
C11_SuccessOn200OrWaitingOrBare ==
    /\ ConfirmReply =>
        LET res  == received.res
            code == IF res.code # 0 THEN res.code
                    ELSE IF res.status # 0 THEN res.status ELSE res.dataCode
            bare == code = 0 /\ res.message = <<>> /\ res.dataMessage = <<>>
        IN  IF received.via = "rejected" THEN step = "failed" /\ ~successTimer
            ELSE IF SaysWaiting(res) THEN step = "pending_confirm" /\ successTimer
            ELSE IF code = 200 \/ bare THEN step = "success" /\ ~successTimer
            ELSE step = "failed" /\ ~successTimer
    /\ successTimer => "waiting" \in hist
    /\ "timerSuccess" \in hist => "waiting" \in hist

C11_Witness ==
    /\ ConfirmReply
    /\ received.res = NoResponse
    /\ received.via = "resolved"
    /\ step = "success"

\* the last step received a response of resourcePaymentConfirm that carries "Waiting"
WaitingReply ==
    /\ ConfirmReply
    /\ received.via = "resolved"
    /\ SaysWaiting(received.res)

\* C12: once resourcePaymentConfirm has answered "Waiting" (which happens
\* only after the transfer was sent) the step eventually is 'success', and
\* from that answer on the step is never 'failed'.
C12_WaitingEndsInSuccess ==
    /\ WaitingReply ~> (step = "success" /\ "timerSuccess" \in hist)
    /\ [](WaitingReply => ("waiting" \in hist /\ ledgerTxs # <<>>))
    /\ []("waiting" \in hist => step # "failed")

C12_Witness ==
    /\ "waiting" \in hist
    /\ "timerSuccess" \in hist
    /\ step = "success"
    /\ ~successTimer

\* the accepts of the Solana family among a gateway answer's accepts, in
\* the order of the answer
RECURSIVE SolanaAccepts(_)
SolanaAccepts(accepts) ==
    IF accepts = <<>> THEN <<>>
    ELSE LET rest == SolanaAccepts(SubSeq(accepts, 1, Len(accepts) - 1))
             last == accepts[Len(accepts)]
         IN  IF last.network = Str_Solana THEN Append(rest, last) ELSE rest

\* C13: after a 402 answer to resourcePayment, resolved or thrown, either no
\* accept of the answer is of the Solana family and the step is 'failed', or
\* paymentOptions is the list of the answer's Solana accepts in the answer's
\* order, orderId is the answer's orderId and the step is 'select_network';
\* and whenever the step is 'select_network' paymentOptions is not empty.
C13_CandidatesAreTheSolanaAccepts ==
    /\ (received.kind = "resourcePayment" /\ received.code = 402) =>
          LET candidates == SolanaAccepts(received.accepts)
          IN  IF candidates = <<>>
              THEN step = "failed" /\ paymentOptions = <<>>
              ELSE /\ step = "select_network"
                   /\ paymentOptions = candidates
                   /\ orderId = received.orderId
    /\ step = "select_network" => paymentOptions # <<>>

C13_Witness ==
    /\ received.kind = "resourcePayment"
    /\ received.via = "rejected"
    /\ received.code = 402
    /\ Len(received.accepts) = 2
    /\ received.accepts[1].network = Str_base
    /\ received.accepts[2].network = Str_Solana
    /\ paymentOptions = <<received.accepts[2]>>
    /\ step = "select_network"

\* C15: a call of handleSelectAmount made while no option is selected changes
\* neither the step nor any other state of the page, starts no handler and
\* issues no gateway or ledger call.
C15_AmountWithoutOptionIsNoOp ==
    [][(received'.kind = "handleSelectAmount" /\ selectedPaymentOption = <<>>)
       => UNCHANGED <<reactState, pc, cl, successTimer, paymentCalls, confirmCalls,
                      ledgerTxs, hist>>]_vars

C15_Witness ==
    /\ received.kind = "handleSelectAmount"
    /\ received.value = <<"0", ".", "1">>
    /\ step = "select_network"
    /\ selectedPaymentOption = <<>>
    /\ pc = "idle"

\* what an index string denotes: <<n>> for the whole number n >= 0, <<>>
\* for a string that is not a number, is negative or is fractional
IndexDenoted ==
    [s \in IndexInputs |->
        CASE s = <<"0">> -> <<0>>
          [] s = <<"1">> -> <<1>>
          [] s = <<"2">> -> <<2>>
          [] s = <<"3">> -> <<3>>
          [] s = <<"1", ".", "0">> -> <<1>>
          [] s = <<"-", "0">> -> <<0>>
          [] OTHER -> <<>>]

LedgerView == received.kind = "ledger"

\* the account is owned by the token program
OwnedByTokenProgram(info) ==
    \E mint \in {"USDC", "other", ""} : info = <<[owner |-> "token", mint |-> mint]>>

\* C17: when the recipient address is an existing account owned by the
\* token program, the lookups read neither the recipient's associated
\* account nor its parsed data; the resolution either fails (sender account
\* missing, mint of the recipient account not USDC) or continues with the
\* recipient address as destination and no instruction before the transfer;
\* and a transaction submitted after it goes to the recipient address and
\* holds the transfer only.
C17_DirectTokenAccountIsUsed ==
    /\ (LedgerView /\ OwnedByTokenProgram(received.directAccountInfo)) =>
          /\ received.lookups \cap {"recipientATA", "recipientATA parsed"} = {}
          /\ IF received.fromInfo = <<>>
                \/ received.directAccountInfo[1].mint = "other"
             THEN step = "failed" /\ pc = "idle" /\ ledgerTxs = <<>>
             ELSE /\ pc = "balances"
                  /\ cl.toTokenAccount = "recipient"
                  /\ cl.instructions = <<>>
    /\ \A t \in DOMAIN ledgerTxs :
          cl.directAccountInfo = <<[owner |-> "token"]>> =>
              /\ ledgerTxs[t].destination = "recipient"
              /\ ledgerTxs[t].instructions = <<"transfer">>

C17_Witness ==
    /\ Len(ledgerTxs) = 1
    /\ cl.directAccountInfo = <<[owner |-> "token"]>>
    /\ ledgerTxs[1].destination = "recipient"
    /\ step = "success"

\* the account the resolver takes as destination: the recipient address when
\* it is a token-program account, else the recipient's associated account
ChosenDestination ==
    IF OwnedByTokenProgram(received.directAccountInfo)
    THEN received.directAccountInfo
    ELSE received.ataInfo

\* C18 as stated: whenever the destination account exists with a mint that
\* is not USDC, sendSolanaTransfer throws the mint-mismatch error and no
\* transaction is submitted.
C18_WrongMintIsMintMismatch ==
    (/\ LedgerView
     /\ received.fromInfo # <<>>
     /\ ChosenDestination # <<>>
     /\ ChosenDestination[1].mint = "other") =>
        /\ step = "failed"
        /\ pc = "idle"
        /\ "MintMismatch" \in hist
        /\ ledgerTxs = <<>>

\* C18, amended: whenever the destination account exists with a mint that is
\* not USDC, sendSolanaTransfer throws and no transaction is submitted; the
\* error is the mint mismatch when the account is owned by the token program,
\* and the owner-program mismatch when it (an associated account) is not.
C18_WrongMintFailsResolution ==
    (/\ LedgerView
     /\ received.fromInfo # <<>>
     /\ ChosenDestination # <<>>
     /\ ChosenDestination[1].mint = "other") =>
        /\ step = "failed"
        /\ pc = "idle"
        /\ ledgerTxs = <<>>
        /\ "transferFailed" \in hist
        /\ IF OwnedByTokenProgram(ChosenDestination)
           THEN "MintMismatch" \in hist /\ "OwnerProgramMismatch" \notin hist
           ELSE "OwnerProgramMismatch" \in hist /\ "MintMismatch" \notin hist

C18_Witness ==
    /\ LedgerView
    /\ received.fromInfo # <<>>
    /\ received.directAccountInfo = <<>>
    /\ received.ataInfo = <<[owner |-> "token", mint |-> "other"]>>
    /\ "MintMismatch" \in hist
    /\ step = "failed"

\* C19: every submitted transaction ends with its only transfer instruction;
\* before it stands the creation of the recipient's associated account, once,
\* when the recipient address was found not to be a token-program account and
\* the associated account was found missing, and nothing otherwise.
C19_OneTransferAfterNeededCreation ==
    \A t \in DOMAIN ledgerTxs :
        LET needsCreation == /\ cl.directAccountInfo # <<[owner |-> "token"]>>
                             /\ cl.ataInfo = <<>>
        IN  /\ ledgerTxs[t].instructions =
                 IF needsCreation THEN <<"createAssociatedTokenAccount", "transfer">>
                 ELSE <<"transfer">>
            /\ needsCreation => ledgerTxs[t].destination = "recipientATA"

C19_Witness ==
    /\ Len(ledgerTxs) = 1
    /\ ledgerTxs[1].instructions = <<"createAssociatedTokenAccount", "transfer">>
    /\ cl.directAccountInfo = <<[owner |-> "system"]>>
    /\ cl.ataInfo = <<>>

\* 10 to the power n
RECURSIVE PowerOfTen(_)
PowerOfTen(n) == IF n = 0 THEN 1 ELSE 10 * PowerOfTen(n - 1)

\* the positions of the '.' characters of s, and the digits of s
DotsOf(s) == {i \in DOMAIN s : s[i] = "."}

DigitsOf(s) == SelectSeq(s, IsDigit)

\* the number written by the digits ds, 0 for none
RECURSIVE NumberOf(_)
NumberOf(ds) ==
    IF ds = <<>> THEN 0
    ELSE DigitValue(Head(ds)) * PowerOfTen(Len(ds) - 1) + NumberOf(Tail(ds))

\* the number whose digits are the digits of `whole` followed by the first
\* `decimals` digits of `fraction`, right-padded with zeros
MinorUnits(whole, fraction, decimals) ==
    LET kept == SubSeq(DigitsOf(fraction), 1,
                       IF Len(DigitsOf(fraction)) < decimals
                       THEN Len(DigitsOf(fraction)) ELSE decimals)
    IN  NumberOf(DigitsOf(whole)) * PowerOfTen(decimals)
        + NumberOf(kept) * PowerOfTen(decimals - Len(kept))

\* C20 as stated: the call returns the number made of the digits before the
\* first '.' and the first `decimals` digits of all that follows the first
\* '.', right-padded with zeros.
C20_DigitsAroundFirstDot ==
    unitCall.returned # <<>> =>
        LET s     == unitCall.value
            first == IF DotsOf(s) = {} THEN Len(s) + 1
                     ELSE CHOOSE i \in DotsOf(s) : \A j \in DotsOf(s) : i <= j
        IN  unitCall.returned[1] =
                MinorUnits(SubSeq(s, 1, first - 1), SubSeq(s, first + 1, Len(s)),
                           unitCall.decimals)

\* C20, amended: the fraction is the text between the first '.' and the
\* second one (the end of the string when there is no second); what follows
\* a second '.' is ignored.
C20_DigitsBetweenFirstAndSecondDot ==
    unitCall.returned # <<>> =>
        LET s      == unitCall.value
            first  == IF DotsOf(s) = {} THEN Len(s) + 1
                      ELSE CHOOSE i \in DotsOf(s) : \A j \in DotsOf(s) : i <= j
            later  == DotsOf(s) \ {first}
            second == IF later = {} THEN Len(s) + 1
                      ELSE CHOOSE i \in later : \A j \in later : i <= j
        IN  unitCall.returned[1] =
                MinorUnits(SubSeq(s, 1, first - 1), SubSeq(s, first + 1, second - 1),
                           unitCall.decimals)

C20_Witness ==
    /\ unitCall.value = <<"0", ".", "1", "2", "3", "4", "5", "6", "7">>
    /\ unitCall.decimals = 6
    /\ unitCall.returned = <<123456>>

\* sendSolanaTransfer is between its first account lookup and the end of
\* confirmTransaction
TransferInProgress == pc \in {"resolve", "balances", "submit", "confirmTransaction"}

\* C14: no step in which fetchSolanaWalletInfo issues a ledger query
\* (getBalance, getAccountInfo, getTokenAccountBalance) is taken while
\* sendSolanaTransfer is in progress.
C14_NoRefreshQueryDuringTransfer ==
    [][(\E query \in WalletQueries : refreshes'[query] > refreshes[query])
       => ~TransferInProgress]_vars

\* C21: sendSolanaTransfer returns a transaction id, the step goes from
\* 'pending_transfer' to 'pending_confirm' and the gateway is called only
\* when confirmTransaction reported the transaction confirmed without a
\* transaction error; a result that carries a transaction error, or an
\* exceeded block height, ends in 'failed' with no txHash stored.
C21_OnlyConfirmedTransferAdvances ==
    /\ ("transferReturned" \in hist \/ txHash # <<>> \/ confirmCalls # <<>>
        \/ step = "pending_confirm") => "transactionError" \notin hist
    /\ ("transactionError" \in hist \/ "ConfirmationTimeout" \in hist) =>
          /\ step = "failed"
          /\ txHash = <<>>
          /\ confirmCalls = <<>>

\* the decimals of the selected option when it is a positive number, else 6
DecimalsOfSelected ==
    LET decimals == selectedPaymentOption[1].decimals
    IN  IF decimals # <<>> /\ decimals[1] > 0 THEN decimals[1] ELSE 6

\* handleSelectAmount has passed its guard and resolved the decimals
TransferStarted ==
    pc \in {"resolve", "balances", "submit", "confirmTransaction", "confirmPayment",
            "resourcePaymentConfirm"}

\* C22: the decimals held by a started transfer are the decimals of the
\* selected option (6 when that is missing or not positive); the amount of
\* every submitted transaction is the requested amount encoded with them and
\* is covered by the balance read; confirmPayment is called with the same
\* value and encodes the amount of the proof with it.
C22_OneDecimalsPerTransfer ==
    /\ TransferStarted => cl.decimals = DecimalsOfSelected
    /\ \A t \in DOMAIN ledgerTxs :
          /\ ledgerTxs[t].amount = amountToSmallestUnit(selectedAmount, DecimalsOfSelected)
          /\ ledgerTxs[t].payerUsdcLamports >= ledgerTxs[t].amount
    /\ received.kind = "confirmPayment" =>
          received.decimalsOverride = DecimalsOfSelected
    /\ \A i \in DOMAIN confirmCalls :
          confirmCalls[i].xPayment.payload.amount =
              NatToString(amountToSmallestUnit(
                  OrElse(cl.actualTransferAmount, cl.selectedAmount),
                  DecimalsOfSelected))

C22_Witness ==
    /\ received.kind = "confirmPayment"
    /\ received.decimalsOverride = 2
    /\ selectedPaymentOption[1].decimals = <<2>>
    /\ Len(ledgerTxs) = 1
    /\ ledgerTxs[1].amount = 10
    /\ Len(confirmCalls) = 1

\* C23: a session at step 'pending_transfer' eventually reaches
\* 'pending_confirm' or 'failed'; the submission (block reference and
\* sendTransaction) is entered only from the balance checks, and the
\* confirmation wait only from a submission that added one transaction.
C23_TransferringEnds ==
    /\ (step = "pending_transfer") ~> (step \in {"pending_confirm", "failed"})
    /\ [][/\ (pc' = "submit" /\ pc # "submit") => pc = "balances"
          /\ (pc' = "confirmTransaction" /\ pc # "confirmTransaction") =>
                /\ pc = "submit"
                /\ Len(ledgerTxs') = Len(ledgerTxs) + 1]_vars

C23_Witness ==
    /\ step = "failed"
    /\ Len(ledgerTxs) = 1
    /\ "ConfirmationTimeout" \in hist
    /\ pc = "idle"

\* a step of fetchWalletInfo: a display value changes, a call is started,
\* resumed or ended, or the timer of sendSolanaTransfer fires
RefreshStep ==
    \/ displayVars' # displayVars
    \/ refreshes' # refreshes
    \/ walletTimer /\ ~walletTimer'

\* C24: every step of the wallet refresh, whatever started it and wherever
\* the session is, leaves the step, the chat, the candidate options, the
\* selected option, the amounts, orderId, resourceid, txHash, the handler in
\* flight and the calls made to the gateway and to the ledger unchanged.
C24_RefreshChangesDisplayOnly ==
    [][RefreshStep =>
         UNCHANGED <<reactState, pc, cl, successTimer, paymentCalls, confirmCalls,
                     ledgerTxs>>]_vars

C24_Witness ==
    /\ step = "pending_confirm"
    /\ txHash # <<>>
    /\ ~walletTimer
    /\ ~isLoadingBalance
    /\ solWalletAddress = "payerAddress"
    /\ solBalance = <<"0", ".", "0", "1">>
    /\ usdcBalance = <<"2">>

\* C25: when resourcePayment has completed, resolved with any code or
\* rejected with any error, the step is no longer 'pending_payment_info': it
\* is 'select_network', 'success' or 'failed'.
C25_OptionsCallLeavesAwaitingOptions ==
    received.kind = "resourcePayment" =>
        /\ pc = "idle"
        /\ step \in {"select_network", "success", "failed"}

\* C26: whenever a transaction has been submitted, orderId and resourceid
\* are non-empty, and confirmPayment never throws for a missing parameter
\* after the transfer returned.
C26_SubmissionHasOrderAndResource ==
    /\ ledgerTxs # <<>> => orderId # "" /\ resourceid # ""
    /\ "transferReturned" \in hist => "confirmNotSent" \notin hist

\* the steps 'success' and 'failed'
Terminal == {"success", "failed"}

\* C27: once the step is 'success' or 'failed' no step of the page changes
\* it; in such a state no handler is in flight, the success timer is not
\* pending, the start button is not rendered and the option buttons are
\* disabled, while the wallet refresh and its timer go on.
C27_TerminalStepsAreAbsorbing ==
    /\ [][(step \in Terminal) => (step' = step)]_vars
    /\ [](step \in Terminal =>
            /\ pc = "idle"
            /\ ~successTimer
            /\ ~StartButtonRendered
            /\ ~OptionButtonsEnabled)

\* the session succeeded through the delayed success timer, the refresh timer
\* of its transfer has fired since and that refresh is still in flight
C27_Witness ==
    /\ step = "success"
    /\ "timerSuccess" \in hist
    /\ ~walletTimer
    /\ refreshes["getTokenAccountBalance"] = 1

=============================================================================
